---- MODULE Spec2Model ----
(***************************************************************************)
(* A model of src/models/src/dataseters/GRUs.py: the typhoon dataset       *)
(* (TyDataset: seeded train/test split, the per-event index table, the     *)
(* event scan and sample assembly of __getitem__), ToTensor and Normalize. *)
(*                                                                         *)
(* Times are integers, in seconds.  An attribute or argument that may be   *)
(* absent (None, or an attribute never assigned) is <<>> when absent and   *)
(* <<v>> when it holds v.                                                  *)
(***************************************************************************)
EXTENDS Integers, Sequences, FiniteSets, TLC

\* ---------------------------------------------------------------- bounds

\* The largest event population (rows of the typhoon list).
MaxEvents == 2
\* The largest input_frames and target_frames.
MaxFrames == 2
\* __getitem__ is called with idx in -1 .. MaxIdx, and at the table's end.
MaxIdx == 1
\* The largest population the split is constructed over twice.
MaxSplitEvents == 4
\* The number of concurrent __getitem__ calls.
MaxThreads == 2

\* The events a population is drawn from: issue and cancel time.  Durations
\* of 10 min (too short for windows of 3 frames or more), 57 min 30 s (not
\* aligned to the step) and 1 day 30 min.
EventKinds ==
    << [issue |-> 0,    cancel |-> 600],
       [issue |-> 330,  cancel |-> 3780],
       [issue |-> 1800, cancel |-> 90000] >>

\* ------------------------------------------------------- program constants

\* np.random.seed(1)
Seed == 1
\* dt.timedelta(minutes=...*10), in minutes
StepMinutes == 10
\* (frame_e-frame_s).seconds/600
SecondsPerStep == 600
\* (frame_e-frame_s).days*24*6
HoursPerDay == 24
StepsPerHour == 6

SecondsPerDay == HoursPerDay * StepsPerHour * SecondsPerStep

\* ------------------------------------------------------------ Python values

None == <<>>
Some(v) == <<v>>
IsSet(a) == a # <<>>
Val(a) == a[1]

Min(a, b) == IF a < b THEN a ELSE b

\* int(num/den) for den > 0: truncation towards zero.
IntTrunc(num, den) ==
    IF num >= 0 THEN num \div den ELSE -((-num) \div den)

\* s[a:b] of a sequence, for 0 <= a and 0 <= b.
Slice(s, a, b) ==
    LET hi == Min(b, Len(s))
    IN  IF a >= hi THEN <<>> ELSE [k \in 1..(hi - a) |-> s[a + k]]

\* timedelta.days and timedelta.seconds of a difference of d seconds:
\* days is the floor, seconds the non-negative remainder.
TimedeltaDays(d) == d \div SecondsPerDay
TimedeltaSeconds(d) == d % SecondsPerDay

\* dt.timedelta(minutes=m), in seconds.
Minutes(m) == m * 60

\* dt.datetime.strftime(t, format='%Y%m%d%H%M'): the time to the minute.
Strftime(t) == t - (t % 60)

\* The permutations of 0 .. n-1, as sequences (positions 1 .. n).
Perms(n) ==
    { p \in [1..n -> 0..(n - 1)] : \A a, b \in 1..n : p[a] = p[b] => a = b }

VARIABLES
    ty_list,        \* the typhoon list: 0..N-1 -> [issue, cancel]
    args,           \* input_frames, target_frames, input_with_grid
    seeded_choice,  \* what np.random.choice(N, N, replace=False) draws from
                    \* the generator in the state np.random.seed(1) leaves
    np_random,      \* the state of the process-wide generator
    ds,             \* the TyDataset instances
    result,         \* the outcome of the last __len__ or __getitem__ call
    pc, req, local, ret,    \* concurrent __getitem__ calls: position, idx,
                            \* the frame's value, the value returned
    norm,           \* the Normalize instance
    sample,         \* the sample Normalize is called with (shared arrays)
    call            \* the outcome of Normalize.__call__

vars == << ty_list, args, seeded_choice, np_random, ds, result,
           pc, req, local, ret, norm, sample, call >>

dataVars == << ty_list, args, seeded_choice >>
threadVars == << pc, req, local, ret >>
normVars == << norm, sample, call >>

N == Cardinality(DOMAIN ty_list)

\* --------------------------------------------------- the seeded permutation

\* Mutant of RandomSeed: the generator is left as it was.
RandomSeedSkipped(g, s) == g

\* np.random.seed(s): the process-wide generator restarts from s.
RandomSeed(g, s) == [seed |-> s, draws |-> 0]

\* np.random.choice(n, n, replace=False) on generator state g: the
\* permutation the library draws.  It is a function of the generator's
\* state: the one fixed permutation right after seed(1), and not determined
\* by this program in any other state.
RandomChoice(g, n) ==
    IF g = [seed |-> Seed, draws |-> 0] THEN {seeded_choice} ELSE Perms(n)

\* The generator after a draw.
RandomAdvance(g) == [g EXCEPT !.draws = 1]

\* ------------------------------------------------------ TyDataset.__init__

\* int(len(ty_list)/4*3)
DefaultTrainNum(n) == IntTrunc(n * 3, 4)

\* The asserts of lines 66 and 73.
SplitAssertFails(n, train_num) == IsSet(train_num) /\ ~(Val(train_num) <= n)

\* Lines 62-75: events_num, the slice of the permutation this mode takes.
SplitEvents(rand_tys, train, train_num) ==
    LET n == Len(rand_tys)
        cut == IF IsSet(train_num) THEN Val(train_num) ELSE DefaultTrainNum(n)
    IN  IF train THEN Slice(rand_tys, 0, cut) ELSE Slice(rand_tys, cut, n)

\* Mutant of FrameEnd: the target frames are left out of the window length.
FrameEndInputsOnly(cancel, a) ==
    cancel - Minutes((a.input_frames - 1) * StepMinutes)

\* Line 83: frame_e, the cancel time moved back by the window length less one.
FrameEnd(cancel, a) ==
    cancel - Minutes((a.input_frames + a.target_frames - 1) * StepMinutes)

\* Line 85: int((frame_e-frame_s).days*24*6 + (frame_e-frame_s).seconds/600) + 1
WindowCount(frame_s, frame_e) ==
    LET d == frame_e - frame_s
    IN  IntTrunc(TimedeltaDays(d) * HoursPerDay * StepsPerHour * SecondsPerStep
                   + TimedeltaSeconds(d), SecondsPerStep) + 1

\* Lines 77-87: the loop over the selected events, from position k on, with
\* the running total tmp, the rows written so far and self.total_frames.
RECURSIVE BuildIndex(_, _, _, _, _, _, _)
BuildIndex(tl, a, events_list, k, tmp, rows, total) ==
    IF k > Len(events_list) THEN [idx_df |-> rows, total_frames |-> total]
    ELSE LET i == events_list[k]
             frame_s == tl[i].issue
             frame_e == FrameEnd(tl[i].cancel, a)
             total_frames == tmp + WindowCount(frame_s, frame_e)
             row == [name |-> i,
                     starting_time |-> frame_s, ending_time |-> frame_e,
                     starting_idx |-> tmp, ending_idx |-> total_frames - 1]
         IN  BuildIndex(tl, a, events_list, k + 1, total_frames,
                        Append(rows, row), Some(total_frames))

NoInstance ==
    [status |-> "none", train |-> TRUE, train_num |-> None, transform |-> None,
     events_list |-> <<>>, idx_df |-> <<>>, total_frames |-> None,
     sample |-> None]

\* TyDataset(args, train, train_num, transform) on the drawn permutation.
NewDataset(tl, a, rand_tys, train, train_num, transform) ==
    IF SplitAssertFails(Len(rand_tys), train_num)
    THEN [NoInstance EXCEPT !.status = "AssertionError",
                            !.train = train, !.train_num = train_num]
    ELSE LET events_list == SplitEvents(rand_tys, train, train_num)
             built == BuildIndex(tl, a, events_list, 1, 0, <<>>, None)
         IN  [status |-> "ok", train |-> train, train_num |-> train_num,
              transform |-> transform,
              events_list |-> events_list, idx_df |-> built.idx_df,
              total_frames |-> built.total_frames, sample |-> None]

TrainNums == {None} \cup { Some(c) : c \in 0..(N + 1) }
Transforms == {None, Some("ToTensor")}

\* The constructor, lines 12-90.
Construct(d, train, train_num, transform) ==
    /\ ds[d].status = "none"
    /\ LET g == RandomSeed(np_random, Seed)
       IN  \E rand_tys \in RandomChoice(g, N) :
               /\ ds' = [ds EXCEPT ![d] = NewDataset(ty_list, args, rand_tys,
                                                    train, train_num, transform)]
               /\ np_random' = RandomAdvance(g)
    /\ UNCHANGED << dataVars, result, threadVars, normVars >>

\* ----------------------------------------------------- TyDataset.__len__

\* Line 93: self.total_frames, an attribute only the loop of line 85 assigns.
LenOf(inst) ==
    IF IsSet(inst.total_frames)
    THEN [status |-> "ok", value |-> inst.total_frames]
    ELSE [status |-> "AttributeError", value |-> None]

\* -------------------------------------------------- TyDataset.__getitem__

\* Lines 99-102: the first row, from position k on, that idx does not lie
\* beyond; 0 when the loop ends without one.
RECURSIVE Scan(_, _, _)

\* Mutant of Scan: a row's ending idx is taken to lie beyond the row.
ScanPastEnd(idx_df, idx, k) ==
    IF k > Len(idx_df) THEN 0
    ELSE IF idx >= idx_df[k].ending_idx THEN Scan(idx_df, idx, k + 1)
    ELSE k

Scan(idx_df, idx, k) ==
    IF k > Len(idx_df) THEN 0
    ELSE IF idx > idx_df[k].ending_idx THEN Scan(idx_df, idx, k + 1)
    ELSE k

\* Lines 97-105: the assert on idx, the scan, and tmp_idx.
Resolve(inst, idx) ==
    IF ~IsSet(inst.total_frames)
    THEN [status |-> "AttributeError", k |-> 0, tmp_idx |-> 0]
    ELSE IF ~(idx < Val(inst.total_frames))
    THEN [status |-> "AssertionError", k |-> 0, tmp_idx |-> 0]
    ELSE LET k == Scan(inst.idx_df, idx, 1)
         IN  IF k = 0 THEN [status |-> "None", k |-> 0, tmp_idx |-> 0]
             ELSE [status |-> "ok", k |-> k,
                   tmp_idx |-> idx - inst.idx_df[k].starting_idx]

\* The time of a frame: the event's starting time plus n steps, as the file
\* name carries it.
FileTime(row, n) == Strftime(row.starting_time + Minutes(StepMinutes * n))

\* A channel of an array: the field it holds and the window it spans (the
\* input window I_shape or the output window O_shape).
Channel(field, shape) == [field |-> field, shape |-> shape]

\* np.zeros((channels, ...)) over a window.
Zeros(channels, shape) == [c \in 1..channels |-> Channel("zeros", shape)]

\* Lines 120-131: the channels of one input frame.
InputFrame(a) ==
    LET f0 == [Zeros(a.input_channels, "I") EXCEPT ![0 + 1] = Channel("RAD", "I")]
    IN  IF a.input_with_grid
        THEN [f0 EXCEPT ![1 + 1] = Channel("gird_x", "I"),
                        ![2 + 1] = Channel("gird_y", "I")]
        ELSE f0

\* Lines 134-144: the channels of radar_map.  c is still 0 when the grids
\* are written.
RadarMap(a) ==
    LET c == 0
        r0 == [Zeros(a.input_channels, "O") EXCEPT ![c + 1] = Channel("RAD", "O")]
    IN  IF a.input_with_grid
        THEN [ [r0 EXCEPT ![c + 1] = Channel("gird_x", "O")]
                   EXCEPT ![c + 1 + 1] = Channel("gird_y", "O") ]
        ELSE r0

\* Lines 105-180: the sample read for row (event) and offset tmp_idx.
Assemble(row, tmp_idx, a) ==
    LET target_idx == tmp_idx + a.input_frames
    IN  [name |-> row.name,
         offset |-> tmp_idx,
         current_time |-> FileTime(row, tmp_idx + a.input_frames - 1),
         input_times |-> [j \in 1..a.input_frames |->
                             FileTime(row, tmp_idx + (j - 1))],
         inputs |-> [j \in 1..a.input_frames |-> InputFrame(a)],
         radar_time |-> FileTime(row, tmp_idx + a.input_frames - 1),
         radar_map |-> RadarMap(a),
         info_from |-> FileTime(row, target_idx),
         info_to |-> FileTime(row, target_idx + a.target_frames - 1),
         target_times |-> [j \in 1..a.target_frames |->
                              FileTime(row, target_idx + (j - 1))],
         form |-> "ndarray"]

\* ToTensor.__call__, lines 190-197: torch.from_numpy takes ndarrays only.
ToTensor(s) ==
    IF s.form = "ndarray"
    THEN [status |-> "ok", sample |-> Some([s EXCEPT !.form = "tensor"])]
    ELSE [status |-> "TypeError", sample |-> None]

\* One whole __getitem__(idx) call with no other call running: the outcome,
\* and self.sample after it.
GetItemOf(inst, a, idx) ==
    LET r == Resolve(inst, idx)
    IN  IF r.status # "ok"
        THEN [status |-> r.status, value |-> None, self_sample |-> inst.sample]
        ELSE LET s == Assemble(inst.idx_df[r.k], r.tmp_idx, a)
                 t == ToTensor(s)
             IN  IF ~IsSet(inst.transform)
                 THEN [status |-> "ok", value |-> Some(s),
                       self_sample |-> Some(s)]
                 ELSE IF t.status = "ok"
                 THEN [status |-> "ok", value |-> t.sample,
                       self_sample |-> t.sample]
                 ELSE [status |-> t.status, value |-> None,
                       self_sample |-> Some(s)]

\* The indices __getitem__ is called with.
Indices(inst) ==
    (-1..MaxIdx) \cup
    (IF IsSet(inst.total_frames)
     THEN {Val(inst.total_frames) - 1, Val(inst.total_frames)} ELSE {})

LenCall(d) ==
    /\ ds[d].status = "ok"
    /\ LET r == LenOf(ds[d])
       IN  result' = [op |-> "len", d |-> d, idx |-> 0, status |-> r.status,
                      value |-> r.value]
    /\ UNCHANGED << dataVars, np_random, ds, threadVars, normVars >>

GetItem(d, idx) ==
    /\ ds[d].status = "ok"
    /\ LET r == GetItemOf(ds[d], args, idx)
       IN  /\ result' = [op |-> "getitem", d |-> d, idx |-> idx,
                         status |-> r.status, value |-> r.value]
           /\ ds' = [ds EXCEPT ![d].sample = r.self_sample]
    /\ UNCHANGED << dataVars, np_random, threadVars, normVars >>

\* ------------------------------------------------------------------ Spec

\* The configurations: the grids take channels 1 and 2 of the three.
Args(grids) ==
    { [input_frames |-> i, target_frames |-> t, input_with_grid |-> g,
       input_channels |-> IF g THEN 3 ELSE 1] :
        i \in 1..MaxFrames, t \in 1..MaxFrames, g \in grids }

\* The populations of 1 .. max events of the given kinds.  Events are named
\* by their row, and every order of selection comes from the permutation,
\* so the rows are listed by kind.
Populations(kinds, max) ==
    UNION { { [i \in 0..(n - 1) |-> kinds[f[i]]] :
                f \in { g \in [0..(n - 1) -> DOMAIN kinds] :
                          \A i \in 1..(n - 1) : g[i - 1] <= g[i] } } :
            n \in 1..max }

NoResult ==
    [op |-> "none", d |-> 0, idx |-> 0, status |-> "none", value |-> None]

\* The generator before the program seeds it.
Unseeded == [seed |-> 0, draws |-> 0]

NoThreads ==
    /\ pc = <<>>
    /\ req = <<>>
    /\ local = <<>>
    /\ ret = <<>>

NoNormalize ==
    /\ norm = <<>>
    /\ sample = <<>>
    /\ call = <<>>

InitData(populations, argset, instances) ==
    /\ ty_list \in populations
    /\ args \in argset
    /\ seeded_choice \in Perms(N)
    /\ np_random = Unseeded
    /\ ds = [d \in instances |-> NoInstance]
    /\ result = NoResult

\* One dataset instance over any population: construction, __len__ and
\* __getitem__ calls one at a time, no transform.
Init ==
    /\ InitData(Populations(EventKinds, MaxEvents), Args({FALSE}), {1})
    /\ NoThreads
    /\ NoNormalize

Next ==
    \/ \E d \in DOMAIN ds, train \in BOOLEAN, train_num \in TrainNums :
           Construct(d, train, train_num, None)
    \/ \E d \in DOMAIN ds : LenCall(d)
    \/ \E d \in DOMAIN ds : \E idx \in Indices(ds[d]) : GetItem(d, idx)

Spec == Init /\ [][Next]_vars

\* ------------------------------------------------- index table: the claims

\* The valid window count of an event as the specification defines it:
\* floor((adjusted_cancel - issue) / step) + 1.
ValidWindows(ev, a) ==
    ((ev.cancel - (a.input_frames + a.target_frames - 1) * SecondsPerStep
        - ev.issue) \div SecondsPerStep) + 1

\* adjusted_cancel = cancel - (window_length - 1) * step.
AdjustedCancel(ev, a) ==
    ev.cancel - (a.input_frames + a.target_frames - 1) * SecondsPerStep

\* The selected events of an instance, in selection order.
Selected(inst) == [k \in 1..Len(inst.events_list) |-> ty_list[inst.events_list[k]]]

\* The windows of the first k selected events.
RECURSIVE WindowsBefore(_, _)
WindowsBefore(inst, k) ==
    IF k = 0 THEN 0
    ELSE WindowsBefore(inst, k - 1) + ValidWindows(Selected(inst)[k], args)

AllPositive(inst) ==
    \A k \in 1..Len(inst.events_list) : ValidWindows(Selected(inst)[k], args) > 0

Aligned(ev) ==
    /\ ev.issue % SecondsPerStep = 0
    /\ ev.cancel % SecondsPerStep = 0

\* The (event position, local offset) pairs of an instance.
ValidPairs(inst) ==
    UNION { { <<k, off>> : off \in 0..(ValidWindows(Selected(inst)[k], args) - 1) } :
            k \in 1..Len(inst.events_list) }

ResolvedPairs(inst) ==
    { <<Resolve(inst, idx).k, Resolve(inst, idx).tmp_idx>> :
        idx \in 0..(Val(inst.total_frames) - 1) }

\* The state a construction leaves, before any call.
Fresh == result.op = "none"

\* C1: when every selected event has a positive valid window count, every
\* idx in [0, total_samples) resolves to exactly one (event, offset) with
\* 0 <= offset < that event's count; events own index ranges in selection
\* order; and over all idx the resolved pairs are exactly the valid pairs,
\* one idx each.  A __getitem__ call returns the sample of that pair.
C1_ResolveBijection ==
    \A d \in DOMAIN ds :
        LET inst == ds[d]
        IN  (inst.status = "ok" /\ IsSet(inst.total_frames) /\ AllPositive(inst)) =>
            /\ Fresh =>
                /\ \A idx \in 0..(Val(inst.total_frames) - 1) :
                       LET r == Resolve(inst, idx)
                       IN  /\ r.status = "ok"
                           /\ r.tmp_idx >= 0
                           /\ r.tmp_idx < ValidWindows(Selected(inst)[r.k], args)
                           /\ WindowsBefore(inst, r.k - 1) + r.tmp_idx = idx
                /\ ResolvedPairs(inst) = ValidPairs(inst)
                /\ Cardinality(ResolvedPairs(inst)) = Val(inst.total_frames)
            /\ (result.op = "getitem" /\ result.d = d /\ result.idx >= 0
                  /\ result.idx < Val(inst.total_frames)) =>
                /\ result.status = "ok"
                /\ \E k \in 1..Len(inst.events_list) :
                       /\ Val(result.value).name = inst.events_list[k]
                       /\ Val(result.value).offset >= 0
                       /\ Val(result.value).offset
                              < ValidWindows(Selected(inst)[k], args)
                       /\ WindowsBefore(inst, k - 1) + Val(result.value).offset
                              = result.idx

\* C1 witness: a call resolved to the first window of the second selected
\* event, all events having windows.
C1_Witness ==
    \E d \in DOMAIN ds :
        /\ ds[d].status = "ok"
        /\ Len(ds[d].events_list) >= 2
        /\ AllPositive(ds[d])
        /\ result.op = "getitem" /\ result.status = "ok"
        /\ result.idx > 0
        /\ Val(result.value).name = ds[d].events_list[2]
        /\ Val(result.value).offset = 0

\* C2: __getitem__(idx) fails with the index error for every idx outside
\* [0, total_samples), resolving to no pair and assembling nothing.
C2_OutOfRangeFails ==
    \A d \in DOMAIN ds :
        (/\ ds[d].status = "ok" /\ IsSet(ds[d].total_frames)
         /\ result.op = "getitem" /\ result.d = d
         /\ (result.idx < 0 \/ result.idx >= Val(ds[d].total_frames))) =>
            /\ result.status = "AssertionError"
            /\ result.value = None

\* C3: an instance is constructed only when no selected event is too short:
\* no index table holds an event whose ending idx is below its starting
\* idx, nor a running total that decreases.
C3_TooShortRejected ==
    \A d \in DOMAIN ds :
        ds[d].status = "ok" =>
            \A k \in 1..Len(ds[d].idx_df) :
                /\ AdjustedCancel(Selected(ds[d])[k], args) >= Selected(ds[d])[k].issue
                /\ ds[d].idx_df[k].ending_idx >= ds[d].idx_df[k].starting_idx

\* C9: after a construction total_samples is defined and is the sum of the
\* selected events' window counts, 0 for a selection of no events, and
\* __len__ returns it.
C9_TotalDefined ==
    \A d \in DOMAIN ds :
        ds[d].status = "ok" =>
            /\ IsSet(ds[d].total_frames)
            /\ Val(ds[d].total_frames)
                   = WindowsBefore(ds[d], Len(ds[d].events_list))
            /\ (result.op = "len" /\ result.d = d) =>
                   /\ result.status = "ok"
                   /\ result.value = ds[d].total_frames

\* What C10 says of sample s, read for event ev: every time read lies in
\* [issue, cancel]; input frames are one step apart from the window's start,
\* the target frames follow them with no gap or overlap, radar_map and the
\* label are at the last input frame, the side-info rows span the target
\* frames, and the last target frame of the last valid window is at cancel.
WindowTimesOK(ev, s) ==
    LET first == ev.issue + SecondsPerStep * s.offset
        Within(t) == ev.issue <= t /\ t <= ev.cancel
    IN  /\ \A j \in 1..args.input_frames :
               /\ s.input_times[j] = first + SecondsPerStep * (j - 1)
               /\ Within(s.input_times[j])
        /\ \A j \in 1..args.target_frames :
               /\ s.target_times[j]
                      = first + SecondsPerStep * (args.input_frames + j - 1)
               /\ Within(s.target_times[j])
        /\ Len(s.input_times) = args.input_frames
        /\ Len(s.target_times) = args.target_frames
        /\ s.radar_time = s.input_times[args.input_frames]
        /\ s.current_time = s.input_times[args.input_frames]
        /\ s.info_from = s.target_times[1]
        /\ s.info_to = s.target_times[args.target_frames]
        /\ s.offset = ValidWindows(ev, args) - 1 =>
               s.target_times[args.target_frames] = ev.cancel

\* C10: for a selected event with 10-minute aligned issue and cancel times
\* and adjusted_cancel >= issue, and every idx in [0, total_samples) that
\* resolves to it, the times the assembler reads are as WindowTimesOK says.
C10_WindowWithinEvent ==
    \A d \in DOMAIN ds :
        LET inst == ds[d]
            Good(ev) == Aligned(ev) /\ AdjustedCancel(ev, args) >= ev.issue
        IN  (inst.status = "ok" /\ IsSet(inst.total_frames)) =>
            /\ Fresh =>
                \A idx \in 0..(Val(inst.total_frames) - 1) :
                    LET g == GetItemOf(inst, args, idx)
                    IN  (g.status = "ok" /\ Good(ty_list[Val(g.value).name])) =>
                            WindowTimesOK(ty_list[Val(g.value).name], Val(g.value))
            /\ (result.op = "getitem" /\ result.d = d /\ result.status = "ok"
                  /\ result.idx >= 0 /\ result.idx < Val(inst.total_frames)
                  /\ Good(ty_list[Val(result.value).name])) =>
                    WindowTimesOK(ty_list[Val(result.value).name], Val(result.value))

\* C10 witness: a call read the last valid window, not the first, of an
\* aligned event longer than a day, with more than one frame on each side.
C10_Witness ==
    \E d \in DOMAIN ds :
        /\ ds[d].status = "ok"
        /\ result.op = "getitem" /\ result.status = "ok" /\ result.idx >= 0
        /\ args.input_frames > 1 /\ args.target_frames > 1
        /\ LET s == Val(result.value)
               ev == ty_list[s.name]
           IN  /\ Aligned(ev)
               /\ ev.cancel - ev.issue > SecondsPerDay
               /\ s.offset > 0
               /\ s.offset = ValidWindows(ev, args) - 1
               /\ s.target_times[args.target_frames] = ev.cancel

\* ------------------------------------------------------------- SpecSplit

\* Two instances constructed over one population of up to MaxSplitEvents
\* events: the split of lines 58-75 in both modes and with every count.
InitSplit ==
    /\ InitData(Populations(<<EventKinds[2]>>, MaxSplitEvents),
                { a \in Args({FALSE}) : a.input_frames = 1 /\ a.target_frames = 1 },
                {1, 2})
    /\ NoThreads
    /\ NoNormalize

NextSplit ==
    \E d \in DOMAIN ds, train \in BOOLEAN, train_num \in TrainNums :
        Construct(d, train, train_num, None)

SpecSplit == InitSplit /\ [][NextSplit]_vars

Range(seq) == { seq[k] : k \in 1..Len(seq) }

\* C5: a training and a testing instance constructed with the same count
\* (none, or the same explicit count within the population) select disjoint
\* events whose union is the population: the training selection is the
\* first floor(N*3/4), or count, entries of the seeded permutation and the
\* testing selection the rest, both in its order; and two constructions
\* with the same mode and count select the same events in the same order.
C5_SplitPartition ==
    \A d1, d2 \in DOMAIN ds :
        (ds[d1].status = "ok" /\ ds[d2].status = "ok") =>
            LET e1 == ds[d1].events_list
                e2 == ds[d2].events_list
                cut == IF IsSet(ds[d1].train_num) THEN Val(ds[d1].train_num)
                       ELSE (N * 3) \div 4
            IN  /\ (ds[d1].train /\ ~ds[d2].train
                      /\ ds[d1].train_num = ds[d2].train_num) =>
                        /\ Range(e1) \cap Range(e2) = {}
                        /\ Range(e1) \cup Range(e2) = 0..(N - 1)
                        /\ Len(e1) = cut
                        /\ Len(e1) + Len(e2) = N
                        /\ e1 \o e2 = seeded_choice
                /\ (ds[d1].train = ds[d2].train
                      /\ ds[d1].train_num = ds[d2].train_num) => e1 = e2

\* C5 witness: a training and a testing instance with no explicit count
\* over four events, three and one selected, the permutation not the
\* identity.
C5_Witness ==
    /\ N = 4
    /\ ds[1].status = "ok" /\ ds[2].status = "ok"
    /\ ds[1].train /\ ~ds[2].train
    /\ ds[1].train_num = None /\ ds[2].train_num = None
    /\ Len(ds[1].events_list) = 3 /\ Len(ds[2].events_list) = 1
    /\ seeded_choice # <<0, 1, 2, 3>>

\* ------------------------------------------------------------ SpecSample

\* One instance over one event, with and without grid channels and the
\* ToTensor transform: what a __getitem__ call returns.
InitSample ==
    /\ InitData(Populations(<<EventKinds[2]>>, 1), Args(BOOLEAN), {1})
    /\ NoThreads
    /\ NoNormalize

NextSample ==
    \/ \E d \in DOMAIN ds, train \in BOOLEAN, train_num \in TrainNums,
          transform \in Transforms :
           Construct(d, train, train_num, transform)
    \/ \E d \in DOMAIN ds : \E idx \in Indices(ds[d]) : GetItem(d, idx)

SpecSample == InitSample /\ [][NextSample]_vars

\* C6: in every assembled sample radar_map has the channel layout of an
\* input frame: channel 0 the primary field, and with grid channels
\* enabled channel 1 the X grid and channel 2 the Y grid over the output
\* window.
C6_RadarMapLayout ==
    (result.op = "getitem" /\ result.status = "ok") =>
        LET s == Val(result.value)
        IN  /\ Len(s.radar_map) = Len(s.inputs[1])
            /\ \A c \in 1..Len(s.radar_map) :
                   s.radar_map[c].field = s.inputs[1][c].field
            /\ s.radar_map[1] = Channel("RAD", "O")
            /\ args.input_with_grid =>
                   /\ s.radar_map[2] = Channel("gird_x", "O")
                   /\ s.radar_map[3] = Channel("gird_y", "O")

\* ---------------------------------------------------------------- SpecConc

Threads == 1..MaxThreads

\* Lines 97-178 of a call __getitem__(idx) by thread t: the assert, the
\* scan and the reads, all on the call's own frame.
Call(t, idx) ==
    /\ pc[t] = "idle"
    /\ ds[1].status = "ok"
    /\ req' = [req EXCEPT ![t] = idx]
    /\ LET r == Resolve(ds[1], idx)
       IN  IF r.status = "ok"
           THEN /\ local' = [local EXCEPT ![t] =
                       Some(Assemble(ds[1].idx_df[r.k], r.tmp_idx, args))]
                /\ pc' = [pc EXCEPT ![t] = "store"]
                /\ ret' = ret
           ELSE /\ pc' = [pc EXCEPT ![t] = "raised"]
                /\ ret' = [ret EXCEPT ![t] = [status |-> r.status, value |-> None]]
                /\ local' = local
    /\ UNCHANGED << dataVars, np_random, ds, result, normVars >>

\* Line 180: self.sample = {...}
Store(t) ==
    /\ pc[t] = "store"
    /\ ds' = [ds EXCEPT ![1].sample = local[t]]
    /\ pc' = [pc EXCEPT ![t] = "test"]
    /\ UNCHANGED << dataVars, np_random, result, req, local, ret, normVars >>

\* Lines 182-183: if self.transform, the argument self.sample is read.
Load(t) ==
    /\ pc[t] = "test"
    /\ IF IsSet(ds[1].transform)
       THEN /\ local' = [local EXCEPT ![t] = ds[1].sample]
            /\ pc' = [pc EXCEPT ![t] = "apply"]
       ELSE /\ local' = local
            /\ pc' = [pc EXCEPT ![t] = "return"]
    /\ UNCHANGED << dataVars, np_random, ds, result, req, ret, normVars >>

\* Line 183: self.sample = self.transform(...), on the argument read.
Apply(t) ==
    /\ pc[t] = "apply"
    /\ LET r == ToTensor(Val(local[t]))
       IN  IF r.status = "ok"
           THEN /\ ds' = [ds EXCEPT ![1].sample = r.sample]
                /\ pc' = [pc EXCEPT ![t] = "return"]
                /\ ret' = ret
           ELSE /\ ds' = ds
                /\ pc' = [pc EXCEPT ![t] = "raised"]
                /\ ret' = [ret EXCEPT ![t] = [status |-> r.status, value |-> None]]
    /\ UNCHANGED << dataVars, np_random, result, req, local, normVars >>

\* Line 186: return self.sample
Return(t) ==
    /\ pc[t] = "return"
    /\ ret' = [ret EXCEPT ![t] = [status |-> "ok", value |-> ds[1].sample]]
    /\ pc' = [pc EXCEPT ![t] = "done"]
    /\ UNCHANGED << dataVars, np_random, ds, result, req, local, normVars >>

\* One instance over one event, and MaxThreads threads each making one
\* __getitem__ call on it.
InitConc ==
    /\ InitData(Populations(<<EventKinds[2]>>, 1),
                { a \in Args({FALSE}) : a.input_frames = 1 /\ a.target_frames = 1 },
                {1})
    /\ pc = [t \in Threads |-> "idle"]
    /\ req = [t \in Threads |-> 0]
    /\ local = [t \in Threads |-> None]
    /\ ret = [t \in Threads |-> [status |-> "none", value |-> None]]
    /\ NoNormalize

NextConc ==
    \/ \E train \in BOOLEAN, train_num \in TrainNums, transform \in Transforms :
           Construct(1, train, train_num, transform)
    \/ \E t \in Threads : \E idx \in Indices(ds[1]) : Call(t, idx)
    \/ \E t \in Threads : Store(t)
    \/ \E t \in Threads : Load(t)
    \/ \E t \in Threads : Apply(t)
    \/ \E t \in Threads : Return(t)

SpecConc == InitConc /\ [][NextConc]_vars

\* C4: concurrent requests for different indices each return the sample
\* assembled for their own index, transformed exactly once, under every
\* interleaving: a request whose idx resolves never fails, and what it
\* returns is what the call returns when it runs alone.
C4_RequestsIsolated ==
    \A t \in Threads :
        (/\ pc[t] \in {"done", "raised"}
         /\ \A u \in Threads :
                pc[u] # "idle" =>
                    /\ req[u] >= 0
                    /\ Resolve(ds[1], req[u]).status = "ok"
                    /\ u # t => req[u] # req[t]) =>
            /\ pc[t] = "done"
            /\ ret[t].status = "ok"
            /\ ret[t].value = GetItemOf(ds[1], args, req[t]).value

\* ------------------------------------------------------------- Normalize

\* An array element: the number num/den.  A division by zero leaves den = 0
\* (numpy's and torch's inf or nan; no exception is raised).
Num(x) == [num |-> x, den |-> 1]
Sub(v, m) == [num |-> v.num - m * v.den, den |-> v.den]
Div(v, d) == [num |-> v.num, den |-> v.den * d]

\* (x - min) / (max - min)
MinMax(v, lo, hi) == Div(Sub(v, lo), hi - lo)

\* Lines 218-224 and 235-241: channel 0 scaled by the RAD range, the grid
\* channels divided by I_shape[0] and I_shape[1].
NormalizeChannels(nm, chans) ==
    LET c0 == [chans EXCEPT ![0 + 1] =
                   MinMax(@, nm.min_values.RAD, nm.max_values.RAD)]
    IN  IF nm.input_with_grid
        THEN [c0 EXCEPT ![1 + 1] = Div(@, nm.I_shape[0 + 1]),
                        ![2 + 1] = Div(@, nm.I_shape[1 + 1])]
        ELSE c0

\* Lines 227-231: the targets, scaled only when normalize_target is set.
NormalizeTargets(nm, target_data) ==
    IF nm.normalize_target
    THEN IF nm.target_RAD
         THEN [j \in DOMAIN target_data |->
                  MinMax(target_data[j], nm.min_values.RAD, nm.max_values.RAD)]
         ELSE [j \in DOMAIN target_data |->
                  MinMax(target_data[j], nm.min_values.QPE, nm.max_values.QPE)]
    ELSE target_data

\* Lines 244-246: every side-info column scaled by its own range.
NormalizeInfos(nm, ty_infos) ==
    [r \in DOMAIN ty_infos |->
        [c \in DOMAIN ty_infos[r] |->
            MinMax(ty_infos[r][c], nm.min_values.info[c], nm.max_values.info[c])]]

\* Normalize.__call__(sample), lines 214-249: the arrays 'inputs' and
\* 'radar_map' of the caller's sample are written in place, target_data and
\* ty_infos are new arrays, and the return statement reads the name height,
\* which the function never binds.
NormalizeCall(nm, s) ==
    LET input_data == [j \in DOMAIN s.inputs |-> NormalizeChannels(nm, s.inputs[j])]
        target_data == NormalizeTargets(nm, s.targets)
        radar_map == NormalizeChannels(nm, s.radar_map)
        ty_infos == NormalizeInfos(nm, s.ty_infos)
    IN  [status |-> "NameError",
         value |-> None,
         target_data |-> target_data,
         ty_infos |-> ty_infos,
         sample |-> [s EXCEPT !.inputs = input_data, !.radar_map = radar_map]]

\* The statistics and flags of a Normalize instance.
Stats(rad, qpe, lat) == [RAD |-> rad, QPE |-> qpe, info |-> <<lat>>]

Normalizers ==
    { [min_values |-> Stats(0, 0, 10),
       max_values |-> Stats(rmax, qmax, lmax),
       normalize_target |-> nt, input_with_grid |-> g, target_RAD |-> tr,
       I_shape |-> <<2, 4>>] :
        rmax \in {0, 100}, qmax \in {0, 50}, lmax \in {10, 30},
        nt \in BOOLEAN, g \in BOOLEAN, tr \in BOOLEAN }

\* The well-formed samples for a Normalize instance: one input frame, one
\* target frame, one side-info row of one column, one pixel a channel.
Samples(nm) ==
    { [inputs |-> << IF nm.input_with_grid THEN <<Num(x), Num(1), Num(3)>>
                                           ELSE <<Num(x)>> >>,
       targets |-> <<Num(50)>>,
       ty_infos |-> << <<Num(20)>> >>,
       radar_map |-> IF nm.input_with_grid THEN <<Num(x), Num(0), Num(0)>>
                                           ELSE <<Num(x)>>,
       height |-> Num(1),
       current_time |-> 600] : x \in {0, 25, 100} }

NoCall ==
    [status |-> "none", value |-> None, arg |-> None,
     target_data |-> <<>>, ty_infos |-> <<>>]

NormalizeSample ==
    /\ call.status = "none"
    /\ LET r == NormalizeCall(norm, sample)
       IN  /\ call' = [status |-> r.status, value |-> r.value,
                       arg |-> Some(sample),
                       target_data |-> r.target_data, ty_infos |-> r.ty_infos]
           /\ sample' = r.sample
    /\ UNCHANGED << dataVars, np_random, ds, result, threadVars, norm >>

\* A Normalize instance and a sample it is called with once.
InitNorm ==
    /\ ty_list = <<>>
    /\ args = <<>>
    /\ seeded_choice = <<>>
    /\ np_random = Unseeded
    /\ ds = <<>>
    /\ result = NoResult
    /\ NoThreads
    /\ norm \in Normalizers
    /\ sample \in Samples(norm)
    /\ call = NoCall

NextNorm == NormalizeSample

SpecNorm == InitNorm /\ [][NextNorm]_vars

\* The fields a Normalize instance uses: RAD always, QPE when the target is
\* normalized and is not the primary field, and every side-info column.
Degenerate(nm) ==
    \/ nm.max_values.RAD = nm.min_values.RAD
    \/ nm.normalize_target /\ ~nm.target_RAD
         /\ nm.max_values.QPE = nm.min_values.QPE
    \/ \E c \in DOMAIN nm.max_values.info :
           nm.max_values.info[c] = nm.min_values.info[c]

\* The elements of the arrays a call has computed: the sample's arrays
\* written in place, and the call's own target_data and ty_infos.
Elements(s, c) ==
    UNION { { s.inputs[j][k] : k \in DOMAIN s.inputs[j] } : j \in DOMAIN s.inputs }
        \cup { s.radar_map[k] : k \in DOMAIN s.radar_map }
        \cup { c.target_data[j] : j \in DOMAIN c.target_data }
        \cup UNION { { c.ty_infos[r][k] : k \in DOMAIN c.ty_infos[r] } :
                     r \in DOMAIN c.ty_infos }

\* C7: with max # min for every field used, normalize completes and returns
\* a sample whose height and current_time are those of the input sample.
C7_HeightPassedThrough ==
    (call.status # "none" /\ ~Degenerate(norm)) =>
        /\ call.status = "ok"
        /\ IsSet(call.value)
        /\ Val(call.value).height = Val(call.arg).height
        /\ Val(call.value).current_time = Val(call.arg).current_time

\* C8: with max = min for a field used, normalize fails with the
\* invalid-argument error before any division: nothing is divided by zero
\* and the input sample is as it was.
C8_DegenerateRangeRejected ==
    (call.status # "none" /\ Degenerate(norm)) =>
        /\ call.status = "InvalidArgument"
        /\ sample = Val(call.arg)
        /\ \A v \in Elements(sample, call) : v.den # 0

====
